---- MODULE Spec2Model ----
(***************************************************************************)
(* Model of the Scanax backend (src/backend/main.py): the three request    *)
(* handlers /analyze, /fix and /scan-dependencies around the reasoning     *)
(* engine (the Groq chat-completion call).                                 *)
(*                                                                         *)
(* The handlers are "async def" without any await, and the engine call is  *)
(* a blocking call, so one request runs to completion before the next one  *)
(* starts.  A request is modelled in two steps: the part of the handler up *)
(* to the engine call, and the part from the engine's outcome to the       *)
(* response.  The engine is the environment: it may raise (rate limit or   *)
(* any other error) or return arbitrary content.                           *)
(*                                                                         *)
(* A text is a sequence of tokens.  "x" is a name character, " " and "\n"  *)
(* are whitespace, the other tokens are the literal substrings the         *)
(* dependency classifier looks for.  The credential (user_key) selects the *)
(* API key only and has no influence on control flow; it is not modelled.  *)
(***************************************************************************)
EXTENDS Integers, Sequences, FiniteSets, TLC

VARIABLES pc, req, locals, engineCalls, engineOut, resp, first

vars == <<pc, req, locals, engineCalls, engineOut, resp, first>>

(***************************************************************************)
(* Bounds of the model                                                     *)
(***************************************************************************)
\* longest text submitted to /analyze and /fix, in tokens
MaxLen == 2
\* longest engine "errors" list enumerated over the whole entry domain
MaxResp == 2
\* longest engine "errors" list of the family built around the result cap
MaxLong == 12
\* largest number of lines of a text submitted to /scan-dependencies
MaxScanLines == 2
\* longest engine "vulnerabilities" list
MaxVulns == 1

(***************************************************************************)
(* Program constants                                                       *)
(***************************************************************************)
\* "if len(validated_errors) >= 10: break"
MaxFindings == 10
\* "for line in lines[:10]"
HeadLines == 10
\* HTTPException(status_code=400, ...)
StatusBadRequest == 400
\* HTTPException(status_code=500, ...)
StatusInternal == 500
\* a handler that returns normally
StatusOK == 200

(***************************************************************************)
(* Texts: str.strip, str.split('\n')                                       *)
(***************************************************************************)
Whitespace == {" ", "\n"}

RECURSIVE LStrip(_)
LStrip(s) ==
  IF s = <<>> THEN <<>>
  ELSE IF Head(s) \in Whitespace THEN LStrip(Tail(s)) ELSE s

RECURSIVE RStrip(_)
RStrip(s) ==
  IF s = <<>> THEN <<>>
  ELSE IF s[Len(s)] \in Whitespace THEN RStrip(SubSeq(s, 1, Len(s) - 1)) ELSE s

\* str.strip(): leading and trailing whitespace removed
Strip(s) == RStrip(LStrip(s))

\* str.split('\n'): the pieces between newlines; always at least one piece
RECURSIVE SplitLines(_)
SplitLines(s) ==
  IF \A i \in 1..Len(s) : s[i] # "\n" THEN <<s>>
  ELSE LET k == CHOOSE i \in 1..Len(s) :
                   s[i] = "\n" /\ \A j \in 1..(i - 1) : s[j] # "\n"
       IN <<SubSeq(s, 1, k - 1)>> \o SplitLines(SubSeq(s, k + 1, Len(s)))

RECURSIVE SeqsUpTo(_, _)
SeqsUpTo(S, n) ==
  IF n = 0 THEN {<<>>}
  ELSE LET shorter == SeqsUpTo(S, n - 1)
       IN shorter \cup {Append(s, x) : s \in {t \in shorter : Len(t) = n - 1}, x \in S}

\* texts submitted to /analyze and /fix
CodeTexts == SeqsUpTo({"x", " ", "\n"}, MaxLen)

(***************************************************************************)
(* Engine output for /analyze: the entries of the "errors" list            *)
(*                                                                         *)
(* An entry is what json.loads produced for one element of the list.       *)
(*   obj  FALSE: the element is not a JSON object (a string, a number ...) *)
(*   lt   how its "line" field looks: "missing", "num" (the number v2/2,   *)
(*        so that v2 = 3 is the float 1.5), "nan" (json.loads accepts the  *)
(*        literal NaN) or "str" (a value that cannot be compared with an   *)
(*        int: a string, null, a list)                                     *)
(*   msg  its "message": NoMsg when the field is missing, else the number  *)
(*        of a message text, EmptyMsg being the empty string               *)
(*   id   the rest of the entry (title, description, ...), which tells two *)
(*        entries with the same line and message apart                     *)
(***************************************************************************)
NoMsg == -1
EmptyMsg == 0

Entry(obj, lt, v2, msg) == [obj |-> obj, lt |-> lt, v2 |-> v2, msg |-> msg, id |-> 0]

NotAnObject == Entry(FALSE, "missing", 0, NoMsg)

\* line values tried: 0, 1, 1.5, 2 and one past the longest text
LineValues ==
  {[lt |-> "missing", v2 |-> 0], [lt |-> "str", v2 |-> 0], [lt |-> "nan", v2 |-> 0]}
    \cup {[lt |-> "num", v2 |-> n] : n \in {0, 2, 3, 4, 2 * (MaxLen + 1)}}

Entries ==
  {NotAnObject} \cup {Entry(TRUE, l.lt, l.v2, m) : l \in LineValues, m \in {NoMsg, EmptyMsg, 1}}

\* the position of an entry in the list stands for its remaining fields
WithIds(s) == [i \in 1..Len(s) |-> [s[i] EXCEPT !.id = i]]

InsertAt(s, p, e) == SubSeq(s, 1, p - 1) \o <<e>> \o SubSeq(s, p, Len(s))

\* n findings on line 1 with n different messages
Distinct(n) == [i \in 1..n |-> Entry(TRUE, "num", 2, i)]

\* every list of at most MaxResp entries
ShortLists == {WithIds(s) : s \in SeqsUpTo(Entries, MaxResp)}

\* lists around the result cap: n different findings, alone or with one more
\* entry of any kind put at any position
LongLists ==
  LET sizes == (MaxFindings - 1)..MaxLong
  IN {WithIds(Distinct(n)) : n \in sizes}
       \cup UNION {{WithIds(InsertAt(Distinct(n), p, e)) :
                      p \in 1..(n + 1), e \in Entries} : n \in sizes}

(***************************************************************************)
(* Engine outcomes.  kind: the call raised RateLimitError ("ratelimit"),   *)
(* raised something else ("error"), or returned content ("content").       *)
(* For content, top is what json.loads makes of it:                        *)
(*   "invalid"  json.loads raises (not JSON, or content is None)           *)
(*   "scalar"   a number, true, false or null                              *)
(*   "list"     a JSON array; haskey: the key string is one of its items   *)
(*   "str"      a JSON string; haskey: the key string is a substring       *)
(*   "obj"      a JSON object; haskey: it has the endpoint's key           *)
(* iter: the value under the key can be iterated (it is a list); items:    *)
(* that list.  fixed_code / explanation: the two fields of a /fix answer,  *)
(* each "missing", "str" or "bad" (present but not a string).              *)
(***************************************************************************)
Outcome(kind, top, haskey, iter, items, fc, ex) ==
  [kind |-> kind, top |-> top, haskey |-> haskey, iter |-> iter, items |-> items,
   fixed_code |-> fc, explanation |-> ex]

Content(top, haskey, iter, items) ==
  Outcome("content", top, haskey, iter, items, "missing", "missing")

Raises == {Outcome(k, "none", FALSE, FALSE, <<>>, "missing", "missing") :
             k \in {"ratelimit", "error"}}

\* content without a usable list under the key
Shapes ==
  {Content("invalid", FALSE, FALSE, <<>>), Content("scalar", FALSE, FALSE, <<>>)}
    \cup {Content(t, k, FALSE, <<>>) : t \in {"list", "str", "obj"}, k \in BOOLEAN}

AnalyzeOutcomes ==
  Raises \cup Shapes
    \cup {Content("obj", TRUE, TRUE, l) : l \in ShortLists \cup LongLists}

\* the outcomes tried when a client sends the same text again
RepeatOutcomes ==
  Raises \cup Shapes
    \cup {Content("obj", TRUE, TRUE, l) : l \in {s \in ShortLists : Len(s) <= 1}}

(***************************************************************************)
(* Requests, handler locals and responses                                  *)
(***************************************************************************)
Request(ep, code, desc, given, vline) ==
  [ep |-> ep, code |-> code, vulnerability_description |-> desc,
   line_given |-> given, vulnerability_line |-> vline]

NoRequest == Request("none", <<>>, "", FALSE, 0)

NoLocals == [total_lines |-> 0, vuln_line_idx |-> 0, file_type |-> "None",
             scanned_files |-> <<>>]

NoOutcome == Outcome("none", "none", FALSE, FALSE, <<>>, "missing", "missing")

\* the JSON body of a successful /analyze response: the engine's result with
\* its "errors" replaced by the validated list; top and haskey as for content
AnalyzeBody(top, haskey, errors) == [top |-> top, haskey |-> haskey, errors |-> errors]

NoBody == AnalyzeBody("none", FALSE, <<>>)

Response(status, detail, body) == [status |-> status, detail |-> detail, body |-> body]

NoResponse == Response(0, "", NoBody)

NoFirst == [set |-> FALSE, body |-> NoBody]

Init ==
  /\ pc = "idle"
  /\ req = NoRequest
  /\ locals = NoLocals
  /\ engineCalls = 0
  /\ engineOut = NoOutcome
  /\ resp = NoResponse
  /\ first = NoFirst

(***************************************************************************)
(* /analyze: the validation loop over result["errors"]                     *)
(***************************************************************************)
\* error.get("line", 0)
LineOf(error) == IF error.lt = "missing" THEN [lt |-> "num", v2 |-> 0]
                 ELSE [lt |-> error.lt, v2 |-> error.v2]

\* error.get("message", "")
MessageOf(error) == IF error.msg = NoMsg THEN EmptyMsg ELSE error.msg

OutOfRangeFromZero(line, total_lines) ==
  /\ line.lt = "num"
  /\ (line.v2 < 2 * 0 \/ line.v2 > 2 * total_lines)

\* "line < 1 or line > total_lines"; every comparison with NaN is false
OutOfRange(line, total_lines) ==
  /\ line.lt = "num"
  /\ (line.v2 < 2 * 1 \/ line.v2 > 2 * total_lines)

\* "key = (line, error.get("message", ""))"; a NaN is equal to nothing but
\* the same float object, which nan names by the entry it came from
KeyOf(error) ==
  [v2 |-> LineOf(error).v2, msg |-> MessageOf(error),
   nan |-> IF error.lt = "nan" THEN error.id ELSE 0]

IsDuplicateNever(key, seen) == FALSE

\* "if key in seen"
IsDuplicate(key, seen) == key \in seen

CapReachedLate(validated_errors) == Len(validated_errors) > MaxFindings

\* "if len(validated_errors) >= 10"
CapReached(validated_errors) == Len(validated_errors) >= MaxFindings

\* the for loop from entry i on; raised names the exception that ended it
RECURSIVE ValidateFrom(_, _, _, _, _)
ValidateFrom(errors, i, total_lines, validated_errors, seen) ==
  IF i > Len(errors) THEN [raised |-> "", errors |-> validated_errors]
  ELSE LET error == errors[i] IN
    IF ~error.obj THEN [raised |-> "AttributeError", errors |-> validated_errors]
    ELSE IF error.lt = "str" THEN [raised |-> "TypeError", errors |-> validated_errors]
    ELSE IF OutOfRange(LineOf(error), total_lines)
      THEN ValidateFrom(errors, i + 1, total_lines, validated_errors, seen)
    ELSE IF IsDuplicate(KeyOf(error), seen)
      THEN ValidateFrom(errors, i + 1, total_lines, validated_errors, seen)
    ELSE LET kept == Append(validated_errors, error) IN
      IF CapReached(kept) THEN [raised |-> "", errors |-> kept]
      ELSE ValidateFrom(errors, i + 1, total_lines, kept, seen \cup {KeyOf(error)})

Validate(errors, total_lines) == ValidateFrom(errors, 1, total_lines, <<>>, {})

\* the response is serialised with allow_nan=False: a NaN left in the body
\* makes the serialisation raise after the handler has returned
Serialisable(errors) == \A i \in 1..Len(errors) : errors[i].lt # "nan"

(***************************************************************************)
(* /analyze                                                                *)
(***************************************************************************)
IsBlankUnstripped(code) == code = <<>>

\* "if not body.code.strip()"
IsBlank(code) == Strip(code) = <<>>

\* HTTPException(status_code=500, detail=str(e)): the detail is the message
\* of whatever was raised
AnalyzeFailure(e) == Response(StatusInternal, e, NoBody)

\* from the engine's outcome to the response (lines 193-222)
AnalyzeResult(out, total_lines) ==
  IF out.kind = "ratelimit" THEN AnalyzeFailure("RateLimitError")
  ELSE IF out.kind = "error" THEN AnalyzeFailure("APIError")
  ELSE IF out.top = "invalid" THEN AnalyzeFailure("JSONDecodeError")
  ELSE IF out.top = "scalar" THEN AnalyzeFailure("TypeError")
  ELSE IF ~out.haskey THEN Response(StatusOK, "", AnalyzeBody(out.top, FALSE, <<>>))
  ELSE IF out.top # "obj" THEN AnalyzeFailure("TypeError")
  ELSE IF ~out.iter THEN AnalyzeFailure("TypeError")
  ELSE LET v == Validate(out.items, total_lines) IN
    IF v.raised # "" THEN AnalyzeFailure(v.raised)
    ELSE IF ~Serialisable(v.errors)
      THEN Response(StatusInternal, "Internal Server Error", NoBody)
    ELSE Response(StatusOK, "", AnalyzeBody("obj", TRUE, v.errors))

\* the handler up to the engine call (lines 173-192)
AnalyzeEnter(code) ==
  /\ req' = Request("analyze", code, "", FALSE, 0)
  /\ engineOut' = NoOutcome
  /\ IF IsBlank(code)
       THEN /\ pc' = "done"
            /\ locals' = NoLocals
            /\ engineCalls' = 0
            /\ resp' = Response(StatusOK, "", AnalyzeBody("obj", TRUE, <<>>))
       ELSE /\ pc' = "calling"
            /\ locals' = [NoLocals EXCEPT !.total_lines = Len(SplitLines(code))]
            /\ engineCalls' = 1
            /\ resp' = NoResponse

\* a client sends a text to /analyze
AnalyzeBegin ==
  /\ pc = "idle"
  /\ \E code \in CodeTexts : AnalyzeEnter(code)
  /\ first' = NoFirst

\* a client that got a successful answer for a non-blank text sends the same
\* text again at once (no time passes, so within any time-to-live), keeping
\* the first answer to compare
AnalyzeAgain ==
  /\ pc = "done"
  /\ req.ep = "analyze"
  /\ ~IsBlank(req.code)
  /\ resp.status = StatusOK
  /\ ~first.set
  /\ AnalyzeEnter(req.code)
  /\ first' = [set |-> TRUE, body |-> resp.body]

\* the engine call of /analyze ends with one of the outcomes outs
AnalyzeEnd(outs) ==
  /\ pc = "calling"
  /\ req.ep = "analyze"
  /\ \E out \in outs :
       /\ engineOut' = out
       /\ resp' = AnalyzeResult(out, locals.total_lines)
  /\ pc' = "done"
  /\ UNCHANGED <<req, locals, engineCalls, first>>

(***************************************************************************)
(* /fix                                                                    *)
(***************************************************************************)
\* values tried for vulnerability_line
Vlines == (0 - 1)..(MaxLen + 1)

FixOutcomes ==
  Raises
    \cup {Content(t, FALSE, FALSE, <<>>) : t \in {"invalid", "scalar", "list", "str"}}
    \cup {Outcome("content", "obj", fc # "missing" /\ ex # "missing", FALSE, <<>>, fc, ex) :
            fc \in {"missing", "str", "bad"}, ex \in {"missing", "str", "bad"}}

FixBody(fixed_code, explanation) == [fixed_code |-> fixed_code, explanation |-> explanation]

\* HTTPException(status_code=500, detail=f"Fix generation failed: {str(e)}")
FixFailure(e) == Response(StatusInternal, "Fix generation failed: " \o e, NoBody)

\* "(body.vulnerability_line or 1) - 1": None and 0 both count as line 1
VulnLineIdx(given, vline) == (IF given /\ vline # 0 THEN vline ELSE 1) - 1

\* "if vuln_line_idx < 0 or vuln_line_idx >= len(lines)"
InvalidLine(vuln_line_idx, nlines) == vuln_line_idx < 0 \/ vuln_line_idx >= nlines

\* the handler up to the engine call (lines 226-261); the HTTPException
\* raised for an invalid line is raised inside the try block and is caught
\* by its "except Exception"
FixEnter(code, desc, given, vline) ==
  /\ req' = Request("fix", code, desc, given, vline)
  /\ engineOut' = NoOutcome
  /\ first' = NoFirst
  /\ IF code = <<>> \/ IsBlank(code)
       THEN /\ pc' = "done"
            /\ locals' = NoLocals
            /\ engineCalls' = 0
            /\ resp' = Response(StatusBadRequest, "No code provided", NoBody)
     ELSE IF desc = ""
       THEN /\ pc' = "done"
            /\ locals' = NoLocals
            /\ engineCalls' = 0
            /\ resp' = Response(StatusBadRequest,
                                "No vulnerability description provided", NoBody)
     ELSE LET lines == SplitLines(code)
              vuln_line_idx == VulnLineIdx(given, vline)
          IN /\ locals' = [NoLocals EXCEPT !.total_lines = Len(lines),
                                           !.vuln_line_idx = vuln_line_idx]
             /\ IF InvalidLine(vuln_line_idx, Len(lines))
                  THEN /\ pc' = "done"
                       /\ engineCalls' = 0
                       /\ resp' = FixFailure("400: Invalid line number")
                  ELSE /\ pc' = "calling"
                       /\ engineCalls' = 1
                       /\ resp' = NoResponse

\* a client sends a request to /fix; vulnerability_line is optional
FixBegin ==
  /\ pc = "idle"
  /\ \E code \in CodeTexts, desc \in {"", "d"}, given \in BOOLEAN, vline \in Vlines :
       (given \/ vline = 0) /\ FixEnter(code, desc, given, vline)

\* from the engine's outcome to the response (lines 263-274)
FixResult(out) ==
  IF out.kind = "ratelimit" THEN FixFailure("RateLimitError")
  ELSE IF out.kind = "error" THEN FixFailure("APIError")
  ELSE IF out.top = "invalid" THEN FixFailure("JSONDecodeError")
  ELSE IF out.top # "obj" THEN FixFailure("AttributeError")
  ELSE IF out.fixed_code = "bad" \/ out.explanation = "bad"
    THEN FixFailure("ValidationError")
  ELSE Response(StatusOK, "",
         FixBody(IF out.fixed_code = "missing" THEN "" ELSE "engine fixed_code",
                 IF out.explanation = "missing" THEN "Security fix applied"
                 ELSE "engine explanation"))

\* the engine call of /fix ends
FixEnd ==
  /\ pc = "calling"
  /\ req.ep = "fix"
  /\ \E out \in FixOutcomes :
       /\ engineOut' = out
       /\ resp' = FixResult(out)
  /\ pc' = "done"
  /\ UNCHANGED <<req, locals, engineCalls, first>>

(***************************************************************************)
(* /scan-dependencies: classification of the text                          *)
(***************************************************************************)
Deps == "\"dependencies\""
DevDeps == "\"devDependencies\""

\* tokens matched by [a-zA-Z0-9\-_]: the name character and the keywords
NameTokens == {"x", "module", "require", "source", "gem"}

\* tokens matched by [=<>!]
OpTokens == {"="}

\* pattern in text, for str operands
Contains(text, pattern) ==
  \E i \in 1..(Len(text) - Len(pattern) + 1) :
     SubSeq(text, i, i + Len(pattern) - 1) = pattern

\* text.startswith(pattern)
StartsWith(text, pattern) ==
  Len(text) >= Len(pattern) /\ SubSeq(text, 1, Len(pattern)) = pattern

\* re.match(r'^[a-zA-Z0-9\-_]+[=<>!]', s): one or more name characters from
\* the start of s, then an operator
RECURSIVE MatchesRequirement(_)
MatchesRequirement(s) ==
  /\ Len(s) >= 2
  /\ s[1] \in NameTokens
  /\ (s[2] \in OpTokens \/ MatchesRequirement(Tail(s)))

\* lines[:n]
FirstLines(lines, n) == SubSeq(lines, 1, IF Len(lines) < n THEN Len(lines) ELSE n)

\* the if/elif chain of lines 290-308; "None" when no branch is taken
Classify(code) ==
  LET lines == SplitLines(code)
      head == FirstLines(lines, HeadLines)
  IN IF Contains(code, <<Deps>>) \/ Contains(code, <<DevDeps>>) THEN "package.json"
     ELSE IF \E i \in 1..Len(head) : MatchesRequirement(Strip(head[i]))
       THEN "requirements.txt"
     ELSE IF Contains(code, <<"module", " ">>) \/ Contains(code, <<"require", " ">>)
       THEN "go.mod"
     ELSE IF StartsWith(Strip(code), <<"source", " ">>) \/ Contains(code, <<"gem", " ">>)
       THEN "Gemfile"
     ELSE "None"

UnclassifiedNever(file_type) == FALSE

\* "if not file_type"
Unclassified(file_type) == file_type = "None"

\* the lines a submitted manifest is made of
LineTemplates ==
  {<<>>, <<"x">>, <<"x", "=">>, <<" ", "x", "=">>, <<Deps>>, <<DevDeps>>,
   <<"module", " ", "x">>, <<"require", " ", "x">>, <<"source", " ", "x">>,
   <<"source", " ">>, <<"gem", " ", "x">>, <<"x", "gem", " ">>, <<"gem", "=">>}

\* '\n'.join(lines)
RECURSIVE JoinLines(_)
JoinLines(lines) ==
  IF lines = <<>> THEN <<>>
  ELSE IF Len(lines) = 1 THEN lines[1]
  ELSE lines[1] \o <<"\n">> \o JoinLines(Tail(lines))

\* n empty lines in front of a text
Padding(n) == [i \in 1..n |-> "\n"]

\* texts submitted to /scan-dependencies: up to MaxScanLines lines, at the
\* top of the text or below empty lines that fill its first HeadLines lines
ScanTexts ==
  {Padding(k) \o JoinLines(ls) :
     k \in {0, HeadLines}, ls \in SeqsUpTo(LineTemplates, MaxScanLines)}

(***************************************************************************)
(* /scan-dependencies: the handler                                         *)
(***************************************************************************)
\* an element of result["vulnerabilities"]: "notobj" is not a JSON object,
\* "bad" has a field that is not a string, "partial" lacks fields, "full"
\* has them all
VulnEntries == {"notobj", "bad", "partial", "full"}

ScanOutcomes ==
  Raises \cup Shapes
    \cup {Content("obj", TRUE, TRUE, l) : l \in SeqsUpTo(VulnEntries, MaxVulns)}

\* DependencyVulnerability(package=vuln.get("package", "unknown"), ...)
DependencyVulnerability(vuln) ==
  IF vuln = "full"
    THEN [package |-> "engine package", version |-> "engine version",
          severity |-> "engine severity", message |-> "engine message"]
    ELSE [package |-> "unknown", version |-> "unknown",
          severity |-> "medium", message |-> "Vulnerability detected"]

DependencyScanResponse(vulnerabilities, scanned_files) ==
  [vulnerabilities |-> vulnerabilities, scanned_files |-> scanned_files]

\* HTTPException(status_code=500, detail=f"Dependency scan failed: {str(e)}")
ScanFailure(e) == Response(StatusInternal, "Dependency scan failed: " \o e, NoBody)

\* the handler up to the engine call (lines 281-351)
ScanEnter(code) ==
  /\ req' = Request("scan", code, "", FALSE, 0)
  /\ engineOut' = NoOutcome
  /\ first' = NoFirst
  /\ LET file_type == Classify(code)
         scanned_files == IF file_type = "None" THEN <<>> ELSE <<file_type>>
     IN /\ locals' = [NoLocals EXCEPT !.total_lines = Len(SplitLines(code)),
                                      !.file_type = file_type,
                                      !.scanned_files = scanned_files]
        /\ IF Unclassified(file_type)
             THEN /\ pc' = "done"
                  /\ engineCalls' = 0
                  /\ resp' = Response(StatusOK, "", DependencyScanResponse(<<>>, <<>>))
             ELSE /\ pc' = "calling"
                  /\ engineCalls' = 1
                  /\ resp' = NoResponse

\* a client sends a text to /scan-dependencies
ScanBegin ==
  /\ pc = "idle"
  /\ \E code \in ScanTexts : ScanEnter(code)

\* from the engine's outcome to the response (lines 353-371)
ScanResult(out, scanned_files) ==
  IF out.kind = "ratelimit" THEN ScanFailure("RateLimitError")
  ELSE IF out.kind = "error" THEN ScanFailure("APIError")
  ELSE IF out.top = "invalid" THEN ScanFailure("JSONDecodeError")
  ELSE IF out.top = "scalar" THEN ScanFailure("TypeError")
  ELSE IF ~out.haskey
    THEN Response(StatusOK, "", DependencyScanResponse(<<>>, scanned_files))
  ELSE IF out.top # "obj" THEN ScanFailure("TypeError")
  ELSE IF ~out.iter THEN ScanFailure("TypeError")
  ELSE IF \E i \in 1..Len(out.items) :
            /\ out.items[i] \in {"notobj", "bad"}
            /\ \A j \in 1..(i - 1) : out.items[j] \notin {"notobj", "bad"}
            /\ out.items[i] = "notobj"
    THEN ScanFailure("AttributeError")
  ELSE IF \E i \in 1..Len(out.items) : out.items[i] = "bad"
    THEN ScanFailure("ValidationError")
  ELSE Response(StatusOK, "",
         DependencyScanResponse(
           [i \in 1..Len(out.items) |-> DependencyVulnerability(out.items[i])],
           scanned_files))

\* the engine call of /scan-dependencies ends
ScanEnd ==
  /\ pc = "calling"
  /\ req.ep = "scan"
  /\ \E out \in ScanOutcomes :
       /\ engineOut' = out
       /\ resp' = ScanResult(out, locals.scanned_files)
  /\ pc' = "done"
  /\ UNCHANGED <<req, locals, engineCalls, first>>

(***************************************************************************)
(* The response leaves the server: the request and its locals are gone     *)
(***************************************************************************)
Deliver ==
  /\ pc = "done"
  /\ pc' = "idle"
  /\ req' = NoRequest
  /\ locals' = NoLocals
  /\ engineCalls' = 0
  /\ engineOut' = NoOutcome
  /\ resp' = NoResponse
  /\ first' = NoFirst

(***************************************************************************)
(* Specifications                                                          *)
(***************************************************************************)
Next ==
  \/ AnalyzeBegin
  \/ AnalyzeEnd(AnalyzeOutcomes)
  \/ FixBegin
  \/ FixEnd
  \/ ScanBegin
  \/ ScanEnd
  \/ Deliver

Spec == Init /\ [][Next]_vars

\* a client that repeats its /analyze request
NextRepeat ==
  \/ AnalyzeBegin
  \/ AnalyzeAgain
  \/ AnalyzeEnd(RepeatOutcomes)
  \/ Deliver

SpecRepeat == Init /\ [][NextRepeat]_vars

(***************************************************************************)
(* Vocabulary of the properties, stated on the request and the engine's    *)
(* list without the handler's own helpers                                  *)
(***************************************************************************)
\* number of newline-separated lines of a text
TotalLines(code) == Cardinality({i \in 1..Len(code) : code[i] = "\n"}) + 1

AllWhitespace(code) == \A i \in 1..Len(code) : code[i] \in Whitespace

AnalyzeDone == pc = "done" /\ req.ep = "analyze"

\* /analyze answered with an "errors" list
AnalyzeSucceeded ==
  AnalyzeDone /\ resp.status = StatusOK /\ resp.body.top = "obj" /\ resp.body.haskey

\* the engine answered /analyze with an object holding an "errors" list
EngineGaveList ==
  engineOut.kind = "content" /\ engineOut.top = "obj" /\ engineOut.haskey /\ engineOut.iter

\* the entry is a finding on a line of the text
InRange(e, code) == e.obj /\ e.lt = "num" /\ 2 <= e.v2 /\ e.v2 <= 2 * TotalLines(code)

\* its (line, message) pair; an entry without message has the empty message
PairOf(e) == <<e.v2, IF e.msg = NoMsg THEN EmptyMsg ELSE e.msg>>

\* positions of the valid findings of a list: in range, and no earlier entry
\* in range has the same pair
ValidAt(items, code) ==
  {i \in 1..Len(items) :
     /\ InRange(items[i], code)
     /\ \A j \in 1..(i - 1) : ~(InRange(items[j], code) /\ PairOf(items[j]) = PairOf(items[i]))}

\* the k-th smallest member of a set of numbers
NthOf(S, k) == CHOOSE x \in S : Cardinality({y \in S : y < x}) = k - 1

(***************************************************************************)
(* Properties                                                              *)
(***************************************************************************)
\* C1: when a text for which /analyze just succeeded is sent again at once,
\* the second request invokes the engine not at all and returns exactly the
\* findings the first request returned.
C1_RepeatIsServedFromCache ==
  (AnalyzeDone /\ first.set) =>
    /\ engineCalls = 0
    /\ resp.status = StatusOK
    /\ resp.body = first.body

\* C2: every finding of a successful /analyze response has a line from 1 to
\* the number of lines of the submitted text, whatever the engine sent (an
\* entry without line field included).
C2_LinesInRange ==
  AnalyzeSucceeded =>
    \A k \in 1..Len(resp.body.errors) :
       LET e == resp.body.errors[k]
       IN e.lt = "num" /\ 2 * 1 <= e.v2 /\ e.v2 <= 2 * TotalLines(req.code)

\* a response that kept a finding while the engine's list also held an entry
\* without line field
C2_Witness ==
  /\ AnalyzeSucceeded
  /\ EngineGaveList
  /\ Len(resp.body.errors) >= 1
  /\ Len(resp.body.errors) < Len(engineOut.items)
  /\ \E i \in 1..Len(engineOut.items) :
        engineOut.items[i].obj /\ engineOut.items[i].lt = "missing"

\* C3: no two findings of the returned list have the same (line, message)
\* pair; a returned finding is the first in-range entry of the engine's list
\* with its pair; and the returned findings stand in the order they have in
\* the engine's list.
C3_FirstOfEachPairInOrder ==
  (AnalyzeSucceeded /\ EngineGaveList) =>
    LET out == resp.body.errors
        items == engineOut.items
    IN /\ \A k, l \in 1..Len(out) : k < l => PairOf(out[k]) # PairOf(out[l])
       /\ \A k \in 1..Len(out) :
             /\ out[k].id \in 1..Len(items)
             /\ items[out[k].id] = out[k]
             /\ \A j \in 1..(out[k].id - 1) :
                   ~(InRange(items[j], req.code) /\ PairOf(items[j]) = PairOf(out[k]))
       /\ \A k, l \in 1..Len(out) : k < l => out[k].id < out[l].id

\* the engine repeated an in-range pair and the response kept one finding of it
C3_Witness ==
  /\ AnalyzeSucceeded
  /\ EngineGaveList
  /\ Len(resp.body.errors) >= 1
  /\ \E i, j \in 1..Len(engineOut.items) :
        /\ i < j
        /\ InRange(engineOut.items[i], req.code)
        /\ InRange(engineOut.items[j], req.code)
        /\ PairOf(engineOut.items[i]) = PairOf(engineOut.items[j])

\* C4: the returned list has at most 10 findings; when the engine's list
\* holds more than 10 valid findings, the returned list is exactly the first
\* 10 of them in input order.
C4_CappedAtFirstTen ==
  (AnalyzeSucceeded /\ EngineGaveList) =>
    LET out == resp.body.errors
        valid == ValidAt(engineOut.items, req.code)
    IN /\ Len(out) <= MaxFindings
       /\ Cardinality(valid) > MaxFindings =>
            /\ Len(out) = MaxFindings
            /\ \A k \in 1..MaxFindings : out[k] = engineOut.items[NthOf(valid, k)]

\* the engine sent more than 10 valid findings and the request succeeded
C4_Witness ==
  /\ AnalyzeSucceeded
  /\ EngineGaveList
  /\ Cardinality(ValidAt(engineOut.items, req.code)) > MaxFindings
  /\ Len(resp.body.errors) = MaxFindings

\* C5: for an empty or whitespace-only text /analyze answers {errors: []}
\* and the engine is invoked at no point of the request.
C5_BlankShortCircuits ==
  (req.ep = "analyze" /\ AllWhitespace(req.code)) =>
    /\ pc = "done"
    /\ engineCalls = 0
    /\ engineOut = NoOutcome
    /\ resp = Response(StatusOK, "", AnalyzeBody("obj", TRUE, <<>>))

\* a whitespace-only, non-empty text was answered
C5_Witness ==
  /\ AnalyzeDone
  /\ Len(req.code) >= 1
  /\ AllWhitespace(req.code)
  /\ resp.status = StatusOK

\* the input of a /fix request is invalid: no code, no description, or a
\* line given that is not a line of the code
InvalidFixInput ==
  \/ AllWhitespace(req.code)
  \/ req.vulnerability_description = ""
  \/ /\ req.line_given
     /\ (req.vulnerability_line < 1 \/ req.vulnerability_line > TotalLines(req.code))

\* C6: a /fix request with invalid input ends in a client error (400), never
\* in the internal failure (500), and the engine is not invoked for it.
C6_InvalidFixIsClientError ==
  (req.ep = "fix" /\ InvalidFixInput) =>
    /\ engineCalls = 0
    /\ pc = "done"
    /\ resp.status = StatusBadRequest

\* the entry is malformed beyond doubt: not an object, without line, or with
\* a line that is no number
Malformed(e) == ~e.obj \/ e.lt \in {"missing", "str"}

WellFormed(e) == ~Malformed(e)

\* C7: when the engine's list holds a malformed entry next to valid ones,
\* /analyze still succeeds and returns what it returns for the list without
\* the malformed entries.
C7_MalformedEntriesAreSkipped ==
  (/\ AnalyzeDone
   /\ EngineGaveList
   /\ \E i \in 1..Len(engineOut.items) : Malformed(engineOut.items[i])
   /\ \E i \in 1..Len(engineOut.items) :
         WellFormed(engineOut.items[i]) /\ InRange(engineOut.items[i], req.code)) =>
    /\ resp.status = StatusOK
    /\ resp.body.errors
         = Validate(SelectSeq(engineOut.items, WellFormed), TotalLines(req.code)).errors

\* the engine's content is not valid structured data or lacks the key of the
\* endpoint
UpstreamMalformed ==
  /\ engineOut.kind = "content"
  /\ \/ engineOut.top # "obj"
     \/ IF req.ep = "fix"
          THEN engineOut.fixed_code = "missing" \/ engineOut.explanation = "missing"
          ELSE ~engineOut.haskey

\* C8: when the engine's content is not valid structured data or lacks the
\* required top-level key, the request ends in the internal failure (500)
\* and nothing is returned as a successful result.
C8_MalformedUpstreamFails ==
  (pc = "done" /\ UpstreamMalformed) => resp.status = StatusInternal

ManifestFamilies == {"package.json", "requirements.txt", "go.mod", "Gemfile"}

\* C9: a text classified as none is answered with the successful empty
\* result and without engine call; the engine is called only for a text
\* classified into one of the four families, and scanned_files of the
\* result is then exactly that family.
C9_ScanOnlyWhenClassified ==
  req.ep = "scan" =>
    IF locals.file_type \notin ManifestFamilies
      THEN /\ pc = "done"
           /\ engineCalls = 0
           /\ engineOut = NoOutcome
           /\ resp = Response(StatusOK, "", DependencyScanResponse(<<>>, <<>>))
      ELSE /\ engineCalls = 1
           /\ (pc = "done" /\ resp.status = StatusOK) =>
                resp.body.scanned_files = <<locals.file_type>>

\* a non-empty text that belongs to no family was answered
C9_Witness ==
  /\ pc = "done"
  /\ req.ep = "scan"
  /\ Strip(req.code) # <<>>
  /\ locals.file_type = "None"
  /\ resp.status = StatusOK

\* the response of the endpoint to the engine's outcome out
ResultOf(ep, out) ==
  IF ep = "analyze" THEN AnalyzeResult(out, locals.total_lines)
  ELSE IF ep = "fix" THEN FixResult(out)
  ELSE ScanResult(out, locals.scanned_files)

\* C10: the failure returned when the engine signals rate-limit exhaustion
\* differs in its status from the failure returned for any other engine
\* error.
C10_RateLimitIsDistinct ==
  (pc = "done" /\ engineOut.kind = "ratelimit") =>
    \A other \in Raises :
       other.kind # "ratelimit" => resp.status # ResultOf(req.ep, other).status

\* the newline-separated lines of a text, taken token by token
RECURSIVE LinesOf(_)
LinesOf(text) ==
  IF text = <<>> THEN << <<>> >>
  ELSE LET rest == LinesOf(Tail(text))
       IN IF Head(text) = "\n" THEN << <<>> >> \o rest
          ELSE << <<Head(text)>> \o rest[1] >> \o Tail(rest)

NonEmptyLine(l) == l # <<>>

\* the first n of the lines that are not empty
FirstNonEmptyLines(text, n) ==
  LET filled == SelectSeq(LinesOf(text), NonEmptyLine)
  IN [i \in 1..(IF Len(filled) < n THEN Len(filled) ELSE n) |-> filled[i]]

\* the line, surrounding whitespace aside, is a name followed by one of = < > !
\* (and by the version, which may be anything)
RequirementShape(l) ==
  LET t == Strip(l)
  IN \E k \in 1..(Len(t) - 1) :
        /\ \A i \in 1..k : t[i] \in NameTokens
        /\ t[k + 1] \in OpTokens

HasToken(text, t) == \E i \in 1..Len(text) : text[i] = t

\* keyword followed by a blank
HasDeclaration(text, keyword) ==
  \E i \in 1..(Len(text) - 1) : text[i] = keyword /\ text[i + 1] = " "

Rule1(text) == HasToken(text, Deps) \/ HasToken(text, DevDeps)

Rule2(text) ==
  LET firstTen == FirstNonEmptyLines(text, 10)
  IN \E i \in 1..Len(firstTen) : RequirementShape(firstTen[i])

Rule3(text) == HasDeclaration(text, "module") \/ HasDeclaration(text, "require")

\* "starts with" is read with leading and trailing whitespace aside
Rule4(text) ==
  \/ (Len(Strip(text)) >= 2 /\ Strip(text)[1] = "source" /\ Strip(text)[2] = " ")
  \/ HasDeclaration(text, "gem")

\* the class of the lowest-numbered rule the text matches
PriorityClass(text) ==
  IF Rule1(text) THEN "package.json"
  ELSE IF Rule2(text) THEN "requirements.txt"
  ELSE IF Rule3(text) THEN "go.mod"
  ELSE IF Rule4(text) THEN "Gemfile"
  ELSE "None"

\* C11: the class /scan-dependencies gives a text is the class of the fixed
\* priority list, first match wins: (1) a dependencies or devDependencies
\* key, (2) one of the first 10 non-empty lines of requirement shape,
\* (3) 'module ' or 'require ', (4) a leading source declaration or 'gem ',
\* else none.
C11_ClassIsPriorityList ==
  req.ep = "scan" => locals.file_type = PriorityClass(req.code)

====
